---- MODULE Spec2Model ----
(***************************************************************************)
(* A model of the structural editor of src/src/components/editor.js: the   *)
(* immutable, path-addressed tree, the update functions (insert, replace,  *)
(* delete, move, value edits), the commit step addToHistory and the        *)
(* bounded undo/redo history.                                              *)
(*                                                                         *)
(* Encoding of the JavaScript values.  Every value is a record, so that    *)
(* two values of different kinds can always be compared:                   *)
(*   an Immutable.Map (an AST node)   a record with a "type" field         *)
(*   an Immutable.List                [list |-> <<...>>]                    *)
(*   a number / NaN                   [num |-> n] / [nan |-> TRUE]         *)
(*   a string                         [str |-> <<characters>>]             *)
(*   a boolean                        [bool |-> b]                         *)
(*   undefined                        [undef |-> TRUE]                     *)
(* A path (an Immutable.List of keys) is a sequence of steps: a field name *)
(* [f |-> "elements"], a collection index [i |-> 0], or undefined.         *)
(***************************************************************************)
EXTENDS Integers, Sequences, FiniteSets

\* ------------------------------------------------------------------------
\* Program constant and the bounds of the model

MAX_HISTORY_LENGTH == 100

\* Spec: the entries history and future may each hold.
MaxEntries == 3
\* SpecEdit: the entries history may hold.
MaxEditEntries == 5
\* SpecMove: the entries history and future may each hold.
MaxMoveEntries == 3
\* SpecCap: the commits made beyond MAX_HISTORY_LENGTH, and the entries
\* future may hold.
MaxCapSlack == 3
MaxCapFuture == 1
\* SpecUndoRedo: the entries future may hold beyond MAX_HISTORY_LENGTH.
MaxFutureSlack == 2
\* SpecNest: the entries history may hold.
MaxNestEntries == 3
\* SpecNum: the entries history may hold.
MaxNumEntries == 4

\* ------------------------------------------------------------------------
\* JavaScript values

Undefined == [undef |-> TRUE]
NaN == [nan |-> TRUE]
Num(n) == [num |-> n]
Str(s) == [str |-> s]
Bool(b) == [bool |-> b]
IList(s) == [list |-> s]

Key(f) == [f |-> f]
Idx(i) == [i |-> i]
End == Key("end")

IsUndefined(v) == "undef" \in DOMAIN v
IsMap(v) == "type" \in DOMAIN v
IsList(v) == "list" \in DOMAIN v
IsKey(step) == "f" \in DOMAIN step
IsIdx(step) == "i" \in DOMAIN step

\* JavaScript truthiness, as `!ast.getIn(selected)` and `x || 0` use it.
Truthy(v) ==
  IF IsMap(v) \/ IsList(v) THEN TRUE
  ELSE IF "num" \in DOMAIN v THEN v.num # 0
  ELSE IF "str" \in DOMAIN v THEN v.str # <<>>
  ELSE IF "bool" \in DOMAIN v THEN v.bool
  ELSE FALSE

\* ------------------------------------------------------------------------
\* Immutable.js collections

Last(p) == IF p = <<>> THEN Undefined ELSE p[Len(p)]
ButLast(p) == IF p = <<>> THEN <<>> ELSE SubSeq(p, 1, Len(p) - 1)
\* list.slice(0, -n)
DropLast(p, n) == IF Len(p) <= n THEN <<>> ELSE SubSeq(p, 1, Len(p) - n)
\* list.slice(0, n)
Take(p, n) == IF n <= 0 THEN <<>> ELSE IF n >= Len(p) THEN p ELSE SubSeq(p, 1, n)
\* list.slice(n)
Drop(p, n) == IF n >= Len(p) THEN <<>> ELSE SubSeq(p, n + 1, Len(p))
\* list.get(n) of a path
PathGet(p, n) == IF n >= 0 /\ n < Len(p) THEN p[n + 1] ELSE Undefined

\* collection.get(step): a Map is keyed by field names, a List by indices
\* (a negative index counts from the end).
Get(v, step) ==
  IF IsMap(v)
    THEN IF IsKey(step) /\ step.f \in DOMAIN v THEN v[step.f] ELSE Undefined
  ELSE IF IsList(v)
    THEN IF IsIdx(step)
           THEN LET n == Len(v.list)
                    i == IF step.i < 0 THEN n + step.i ELSE step.i
                IN IF i >= 0 /\ i < n THEN v.list[i + 1] ELSE Undefined
           ELSE Undefined
  ELSE Undefined

RECURSIVE GetIn(_, _)
GetIn(v, p) == IF p = <<>> THEN v ELSE GetIn(Get(v, Head(p)), Tail(p))

\* collection.set(step, x): List.set with a key that is no index returns the
\* list unchanged; an index past the end grows the list with undefined.
SetStep(v, step, x) ==
  IF IsMap(v)
    THEN IF IsKey(step)
           THEN [k \in DOMAIN v \cup {step.f} |-> IF k = step.f THEN x ELSE v[k]]
           ELSE v
  ELSE IF IsList(v)
    THEN IF IsIdx(step) /\ step.i >= 0
           THEN IList([k \in 1..(IF step.i < Len(v.list) THEN Len(v.list) ELSE step.i + 1) |->
                         IF k = step.i + 1 THEN x
                         ELSE IF k <= Len(v.list) THEN v.list[k] ELSE Undefined])
           ELSE v
  ELSE v

\* ast.updateIn(p, () => x) and ast.setIn(p, x), for a path whose steps
\* before the last exist.
RECURSIVE SetIn(_, _, _)
SetIn(v, p, x) ==
  IF p = <<>> THEN x
  ELSE SetStep(v, Head(p), SetIn(Get(v, Head(p)), Tail(p), x))

\* list.insert(i, x) is splice(i, 0, x): the index is clamped to the size.
ListInsert(l, i, x) ==
  LET n == Len(l.list)
      k == IF i < 0 THEN (IF n + i < 0 THEN 0 ELSE n + i) ELSE IF i > n THEN n ELSE i
  IN IList(SubSeq(l.list, 1, k) \o <<x>> \o SubSeq(l.list, k + 1, n))

\* list.delete(i): unchanged when the list has no index i.
ListDelete(l, i) ==
  LET n == Len(l.list)
      k == IF i < 0 THEN n + i ELSE i
  IN IF k >= 0 /\ k < n
       THEN IList(SubSeq(l.list, 1, k) \o SubSeq(l.list, k + 2, n))
       ELSE l

\* collection.delete(step)
DeleteStep(v, step) ==
  IF IsMap(v)
    THEN IF IsKey(step) /\ step.f \in DOMAIN v
           THEN [k \in DOMAIN v \ {step.f} |-> v[k]]
           ELSE v
  ELSE IF IsList(v)
    THEN IF IsIdx(step) THEN ListDelete(v, step.i) ELSE v
  ELSE v

\* ast.deleteIn(p): deleteIn of the empty path yields undefined.
DeleteIn(v, p) ==
  IF p = <<>> THEN Undefined
  ELSE IF IsUndefined(GetIn(v, ButLast(p))) THEN v
  ELSE SetIn(v, ButLast(p), DeleteStep(GetIn(v, ButLast(p)), Last(p)))

\* ------------------------------------------------------------------------
\* babel-types builders and predicates (on plain JS nodes, after toJS())

nullLiteral == [type |-> "NullLiteral"]
booleanLiteral(b) == [type |-> "BooleanLiteral", value |-> Bool(b)]
numericLiteral(v) == [type |-> "NumericLiteral", value |-> v]
stringLiteral(s) == [type |-> "StringLiteral", value |-> Str(s)]
arrayExpression(elems) == [type |-> "ArrayExpression", elements |-> IList(elems)]
objectExpression(props) == [type |-> "ObjectExpression", properties |-> IList(props)]
objectProperty(k, v) == [type |-> "ObjectProperty", key |-> k, value |-> v]

IsType(node, t) == IsMap(node) /\ node.type = t
isNullLiteral(node) == IsType(node, "NullLiteral")
isNumericLiteral(node) == IsType(node, "NumericLiteral")
isStringLiteral(node) == IsType(node, "StringLiteral")
isArrayExpression(node) == IsType(node, "ArrayExpression")
isObjectExpression(node) == IsType(node, "ObjectExpression")
isObjectProperty(node) == IsType(node, "ObjectProperty")

\* The same predicates handed an Immutable.Map instead of a plain node, as
\* moveSelected does: they read node.type, which a Map does not expose, so
\* they answer false for every tree node.
isObjectPropertyOfMap(item) == FALSE
isObjectExpressionOfMap(item) == FALSE

isEditable(node) == isStringLiteral(node) \/ isNumericLiteral(node)

\* ------------------------------------------------------------------------
\* Numbers and their text: parseFloat, Number and toString on integers.

Digits == <<"0", "1", "2", "3", "4", "5", "6", "7", "8", "9">>
IsDigit(c) == \E d \in 1..10 : Digits[d] = c
DigitVal(c) == (CHOOSE d \in 1..10 : Digits[d] = c) - 1

RECURSIVE NatToStr(_)
NatToStr(n) ==
  IF n < 10 THEN <<Digits[n + 1]>>
  ELSE NatToStr(n \div 10) \o <<Digits[(n % 10) + 1]>>

\* number.toString() and string.toString()
ToString(v) ==
  IF "num" \in DOMAIN v
    THEN Str(IF v.num < 0 THEN <<"-">> \o NatToStr(-v.num) ELSE NatToStr(v.num))
  ELSE IF "nan" \in DOMAIN v THEN Str(<<"N", "a", "N">>)
  ELSE IF "bool" \in DOMAIN v THEN Str(IF v.bool THEN <<"t", "r", "u", "e">>
                                                 ELSE <<"f", "a", "l", "s", "e">>)
  ELSE IF "str" \in DOMAIN v THEN v
  ELSE Str(<<"u", "n", "d", "e", "f", "i", "n", "e", "d">>)

\* The length of the longest prefix of s made of digits.
RECURSIVE DigitPrefix(_)
DigitPrefix(s) ==
  IF s # <<>> /\ IsDigit(Head(s)) THEN 1 + DigitPrefix(Tail(s)) ELSE 0

RECURSIVE DigitsToNat(_, _)
DigitsToNat(s, acc) ==
  IF s = <<>> THEN acc ELSE DigitsToNat(Tail(s), 10 * acc + DigitVal(Head(s)))

\* parseFloat of a text without '.', 'e' or blanks: an optional sign and the
\* longest run of digits; NaN when there is no digit.
ParseFloatText(s) ==
  LET neg == s # <<>> /\ Head(s) = "-"
      body == IF s # <<>> /\ Head(s) \in {"-", "+"} THEN Tail(s) ELSE s
      k == DigitPrefix(body)
  IN IF k = 0 THEN NaN
     ELSE LET n == DigitsToNat(SubSeq(body, 1, k), 0)
          IN Num(IF neg THEN -n ELSE n)

\* parseFloat(value): the argument is converted to a string first.
parseFloat(v) ==
  IF "num" \in DOMAIN v THEN v
  ELSE IF "str" \in DOMAIN v THEN ParseFloatText(v.str)
  ELSE NaN

\* Number(value): the whole text must be a number; '' is 0, true is 1.
Number(v) ==
  IF "num" \in DOMAIN v THEN v
  ELSE IF "bool" \in DOMAIN v THEN Num(IF v.bool THEN 1 ELSE 0)
  ELSE IF "str" \in DOMAIN v
    THEN IF v.str = <<>> THEN Num(0)
         ELSE LET body == IF Head(v.str) \in {"-", "+"} THEN Tail(v.str) ELSE v.str
              IN IF body # <<>> /\ DigitPrefix(body) = Len(body)
                   THEN ParseFloatText(v.str) ELSE NaN
  ELSE NaN

\* a + b on numbers
NumAdd(a, b) == IF "num" \in DOMAIN a /\ "num" \in DOMAIN b THEN Num(a.num + b.num) ELSE NaN

\* a || b
OrElse(a, b) == IF Truthy(a) THEN a ELSE b


\* ------------------------------------------------------------------------
\* The selection navigator (../navigate, specified in section 4.2)

IsCollectionKey(step) == IsKey(step) /\ step.f \in {"elements", "properties"}

\* list.findLastIndex(pred): -1 when no step satisfies it.
FindLastCollectionKey(p) ==
  LET S == {k \in 1..Len(p) : IsCollectionKey(p[k])}
  IN IF S = {} THEN -1 ELSE (CHOOSE k \in S : \A j \in S : j <= k) - 1

FindLastIndexStep(p) ==
  LET S == {k \in 1..Len(p) : IsIdx(p[k])}
  IN IF S = {} THEN -1 ELSE (CHOOSE k \in S : \A j \in S : j <= k) - 1

\* The collection a node holds: its key and its list.
CollectionKeyOf(node) ==
  IF isArrayExpression(node) THEN "elements" ELSE "properties"

NavigateDown(ast, selected) ==
  LET node == GetIn(ast, selected)
  IN IF isArrayExpression(node) \/ isObjectExpression(node)
       THEN LET k == CollectionKeyOf(node)
            IN IF Len(node[k].list) = 0
                 THEN selected \o <<Key(k), End>>
                 ELSE selected \o <<Key(k), Idx(0)>>
     ELSE IF isObjectProperty(node) THEN Append(selected, Key("value"))
     ELSE selected

NavigateUp(ast, selected) ==
  IF selected = <<>> THEN selected
  ELSE IF Last(selected) = End \/ IsIdx(Last(selected)) THEN DropLast(selected, 2)
  ELSE DropLast(selected, 1)

NavigateSideways(isRight, ast, selected) ==
  LET c == FindLastCollectionKey(selected)
      collectionPath == Take(selected, c + 1)
      list == GetIn(ast, collectionPath)
      at == PathGet(selected, c + 1)
  IN IF c < 0 \/ ~IsList(list) THEN selected
     ELSE IF at = End
       THEN IF isRight \/ Len(list.list) = 0 THEN selected
            ELSE Append(collectionPath, Idx(Len(list.list) - 1))
     ELSE IF ~IsIdx(at) THEN selected
     ELSE IF isRight
       THEN IF at.i + 1 >= Len(list.list)
              THEN Append(collectionPath, End)
              ELSE Append(collectionPath, Idx(at.i + 1))
     ELSE IF at.i = 0 THEN selected
          ELSE Append(collectionPath, Idx(at.i - 1))

Directions == {"UP", "DOWN", "LEFT", "RIGHT"}

navigate(direction, ast, selected) ==
  CASE direction = "UP" -> NavigateUp(ast, selected)
    [] direction = "DOWN" -> NavigateDown(ast, selected)
    [] direction = "LEFT" -> NavigateSideways(FALSE, ast, selected)
    [] direction = "RIGHT" -> NavigateSideways(TRUE, ast, selected)

\* ------------------------------------------------------------------------
\* What an update function hands back to addToHistory: nothing (undefined),
\* an object with ast and/or selected, or an exception.

Nothing == [kind |-> "nothing"]
Throws == [kind |-> "throws"]
NewAST(a) == [kind |-> "ast", ast |-> a]
NewState(a, sel) == [kind |-> "state", ast |-> a, selected |-> sel]

\* getClosestCollectionPath(ast, selected), for a selection that resolves
\* (ast.getIn(selected).toJS() throws when it does not).
getClosestCollectionPath(ast, selected) ==
  LET selectedNode == GetIn(ast, selected)
  IN IF isObjectExpression(selectedNode) THEN Append(selected, Key("properties"))
     ELSE IF isArrayExpression(selectedNode) THEN Append(selected, Key("elements"))
     ELSE Take(selected, FindLastCollectionKey(selected) + 1)

\* toJS() exists on Immutable collections only.
HasToJS(v) == IsMap(v) \/ IsList(v)


\* ------------------------------------------------------------------------
\* The update functions of the mutation engine

\* InsertItemIndex putting the new element before the selected one.
InsertItemIndexBefore(selected, collectionPath) ==
  LET at == PathGet(selected, Len(collectionPath))
  IN IF Last(selected) = End THEN Len(collectionPath)
     ELSE IF IsIdx(at) THEN at.i
     ELSE 0

\* insert: the index the new element is put at.  A selection step that is
\* a field name arises only when collectionPath is empty, where the insert
\* has already declined.
InsertItemIndex(selected, collectionPath) ==
  LET at == PathGet(selected, Len(collectionPath))
  IN IF Last(selected) = End THEN Len(collectionPath)
     ELSE IF IsIdx(at) THEN at.i + 1
     ELSE 0

\* insert: the path getClosestCollectionPath starts from.
InsertStartPath(selected) ==
  IF Last(selected) = End THEN DropLast(selected, 3) ELSE selected

\* InsertedItem putting the bare node into an object too.
InsertedItemBare(isArray, node) == node

\* insert: what is put into the collection.
InsertedItem(isArray, node) ==
  IF isArray THEN node ELSE objectProperty(stringLiteral(<<>>), node)

Insert(node, ast, selected) ==
  IF ~HasToJS(GetIn(ast, InsertStartPath(selected))) THEN Throws
  ELSE
    LET collectionPath == getClosestCollectionPath(ast, InsertStartPath(selected))
        itemIndex == InsertItemIndex(selected, collectionPath)
        collectionNode == GetIn(ast, ButLast(collectionPath))
        isArray == isArrayExpression(collectionNode)
        isObject == isObjectExpression(collectionNode)
    IN IF ~HasToJS(collectionNode) THEN Throws
       ELSE IF ~isArray /\ ~isObject THEN Nothing
       ELSE
         LET newAST == SetIn(ast, collectionPath,
                         ListInsert(GetIn(ast, collectionPath), itemIndex,
                                    InsertedItem(isArray, node)))
             newSelected == Append(collectionPath, Idx(itemIndex))
         IN NewState(newAST,
                     IF isArray THEN newSelected
                     ELSE Append(newSelected, Key("key")))

Replace(node, subSelected, ast, selected) ==
  NewState(SetIn(ast, selected, node), selected \o subSelected)

\* deleteSelected: the path handed to deleteIn.
DeletePath(selected) == Take(selected, 1 + FindLastIndexStep(selected))

IsASTDelete(selected) ==
  selected = <<>> \/ (Len(selected) = 2 /\ Last(selected) = End)

DeleteSelected(ast, selected) ==
  LET newAST == DeleteIn(ast, DeletePath(selected))
      isASTDelete == IsASTDelete(selected)
  IN IF isASTDelete THEN NewState(nullLiteral, <<>>)
     ELSE IF Last(selected) = End THEN NewState(newAST, <<>>)
     ELSE IF IsUndefined(newAST) THEN Throws
     ELSE NewState(newAST, navigate("DOWN", newAST, navigate("UP", ast, selected)))

\* selected.update(n, () => x): an index past the end grows the list.
PathUpdate(p, n, x) ==
  [k \in 1..(IF n < Len(p) THEN Len(p) ELSE n + 1) |->
     IF k = n + 1 THEN x ELSE IF k <= Len(p) THEN p[k] ELSE Undefined]

\* moveSelected: the property-into-nested-object case
MoveIntoNested(isMoveUp, ast, selected, collectionPath, itemIndex, newItemIndex) ==
  LET item == GetIn(ast, Append(collectionPath, Idx(itemIndex)))
      targetObjectPath == Append(collectionPath, Idx(newItemIndex))
                            \o <<Key("value"), Key("properties")>>
      targetIndex == IF isMoveUp THEN Len(GetIn(ast, targetObjectPath).list) ELSE 0
      inserted == SetIn(ast, targetObjectPath,
                        ListInsert(GetIn(ast, targetObjectPath), targetIndex, item))
  IN NewState(
       SetIn(inserted, collectionPath,
             ListDelete(GetIn(inserted, collectionPath), itemIndex)),
       collectionPath
         \o <<Idx(newItemIndex + (IF isMoveUp THEN 0 ELSE -1)),
              Key("value"), Key("properties"), Idx(targetIndex)>>
         \o Drop(selected, Len(collectionPath) + 1))

\* moveSelected: the boundary-crossing case
MoveAcrossBoundary(isMoveUp, ast, selected, collectionPath, itemIndex, newItemIndex) ==
  LET itemPath == Append(collectionPath, Idx(itemIndex))
      item == GetIn(ast, itemPath)
      collectionIndexPath == DropLast(Append(collectionPath, Idx(newItemIndex)), 3)
  IN IF ~HasToJS(GetIn(ast, collectionIndexPath)) THEN Throws
     ELSE
       LET parentCollectionPath == getClosestCollectionPath(ast, collectionIndexPath)
           at == PathGet(selected, Len(parentCollectionPath))
           collectionIndex ==
             IF Last(collectionIndexPath) = End THEN Len(parentCollectionPath)
             ELSE IF IsIdx(at) THEN at.i ELSE 0
           outerIndex == collectionIndex + (IF isMoveUp THEN 0 ELSE 1)
       IN IF ~isObjectPropertyOfMap(item)
             \/ ~isObjectExpressionOfMap(GetIn(ast, ButLast(parentCollectionPath)))
            THEN Nothing
          ELSE
            LET deleted == SetIn(ast, collectionPath,
                                 ListDelete(GetIn(ast, collectionPath), itemIndex))
            IN NewState(
                 SetIn(deleted, parentCollectionPath,
                       ListInsert(GetIn(deleted, parentCollectionPath), outerIndex, item)),
                 Append(parentCollectionPath, Idx(outerIndex))
                   \o Drop(selected, Len(itemPath)))

\* moveSelected: the simple swap
MoveSwap(ast, selected, collectionPath, itemIndex, newItemIndex) ==
  LET itemPath == Append(collectionPath, Idx(itemIndex))
      newItemPath == Append(collectionPath, Idx(newItemIndex))
      item == GetIn(ast, itemPath)
      targetItem == GetIn(ast, newItemPath)
  IN NewState(SetIn(SetIn(ast, itemPath, targetItem), newItemPath, item),
              PathUpdate(selected, Len(collectionPath), Idx(newItemIndex)))

MoveSelected(direction, ast, selected) ==
  IF ~HasToJS(GetIn(ast, selected)) THEN Throws
  ELSE
    LET isMoveUp == direction = "UP"
        collectionPath == getClosestCollectionPath(ast, selected)
        at == PathGet(selected, Len(collectionPath))
    IN IF IsKey(at) /\ Last(selected) # End
         \* itemIndex is a field name: parseInt gives NaN, no target item
         \* exists, and the item is no ObjectProperty: the move declines.
         THEN Nothing
       ELSE
         LET itemIndex == IF Last(selected) = End THEN Len(collectionPath)
                          ELSE IF IsIdx(at) THEN at.i ELSE 0
             item == GetIn(ast, Append(collectionPath, Idx(itemIndex)))
             newItemIndex == itemIndex + (IF isMoveUp THEN -1 ELSE 1)
             targetItem == GetIn(ast, Append(collectionPath, Idx(newItemIndex)))
         IN IF isObjectPropertyOfMap(item) /\ isObjectPropertyOfMap(targetItem)
                 /\ isObjectExpressionOfMap(Get(targetItem, Key("value")))
              THEN MoveIntoNested(isMoveUp, ast, selected, collectionPath,
                                  itemIndex, newItemIndex)
            ELSE IF newItemIndex < 0 \/ ~Truthy(targetItem)
              THEN MoveAcrossBoundary(isMoveUp, ast, selected, collectionPath,
                                      itemIndex, newItemIndex)
            ELSE MoveSwap(ast, selected, collectionPath, itemIndex, newItemIndex)

\* updateValue(fn) for ADD_TO_NUMBER(increment)
AddToNumber(increment, ast, selected) ==
  LET path == Append(selected, Key("value"))
  IN NewAST(SetIn(ast, path,
                  ToString(NumAdd(parseFloat(GetIn(ast, path)), Num(increment)))))

\* handleChange: the text of the input replaces the value of the literal.
HandleChangeUpdate(text, ast, selected) ==
  NewAST(SetIn(ast, Append(selected, Key("value")), Str(text)))

\* changeSelected(changeFn)
ChangeSelected(newSelected, ast, selected) == NewState(ast, newSelected)


\* ------------------------------------------------------------------------
\* The external parser and generator

\* parse(defaultValue): the document becomes the only statement of a
\* Program inside a File.
parse(doc) ==
  [type |-> "File",
   program |-> [type |-> "Program", body |-> IList(<<doc>>)]]

\* generate(ast).code as a sequence of characters and tokens
RECURSIVE Generate(_)
RECURSIVE GenerateList(_, _)
Generate(node) ==
  IF isNullLiteral(node) THEN <<"null">>
  ELSE IF IsType(node, "BooleanLiteral") THEN ToString(node.value).str
  ELSE IF isNumericLiteral(node) THEN ToString(node.value).str
  ELSE IF isStringLiteral(node) THEN <<"'">> \o node.value.str \o <<"'">>
  ELSE IF isArrayExpression(node)
    THEN <<"[">> \o GenerateList(node.elements.list, ",") \o <<"]">>
  ELSE IF isObjectExpression(node)
    THEN <<"{">> \o GenerateList(node.properties.list, ",") \o <<"}">>
  ELSE IF isObjectProperty(node)
    THEN Generate(node.key) \o <<":">> \o Generate(node.value)
  ELSE IF IsType(node, "File") THEN Generate(node.program)
  ELSE IF IsType(node, "Program")
    THEN IF IsList(node.body) THEN GenerateList(node.body.list, ";")
         ELSE Generate(node.body)
  ELSE <<"?">>
GenerateList(nodes, sep) ==
  IF nodes = <<>> THEN <<>>
  ELSE IF Len(nodes) = 1 THEN Generate(nodes[1])
  ELSE Generate(nodes[1]) \o <<sep>> \o GenerateList(Tail(nodes), sep)

\* ------------------------------------------------------------------------
\* The state of the editor

VARIABLES
  history,       \* state.history: EditorStates, the current one first
  future,        \* state.future: the undone EditorStates, the next redo first
  defaultValue,  \* props.defaultValue, as the expression it parses to
  last           \* the last handler that ran and what it did (for the properties)

vars == <<history, future, defaultValue, last>>

EditorState(ast, selected) == [ast |-> ast, selected |-> selected]

SELECTED_PREFIX == <<Key("program"), Key("body")>>

\* getCurrentEditorState() and getSelectedNode()
CurrentEditorState == Head(history)
SelectedNode == GetIn(CurrentEditorState.ast, CurrentEditorState.selected)

\* The documents the editor is opened with.
DefaultValues ==
  { objectExpression(<<>>),
    numericLiteral(Num(0)),
    arrayExpression(<<arrayExpression(<<>>), nullLiteral>>),
    arrayExpression(<<numericLiteral(Num(1)), numericLiteral(Num(2))>>),
    objectExpression(<<objectProperty(stringLiteral(<<"a">>),
        objectExpression(<<objectProperty(stringLiteral(<<"b">>),
                                          numericLiteral(Num(1)))>>))>>) }

\* What `last` records of a handler: op and name say which one ran and param
\* the direction of a MOVE; for a
\* commit, outcome is "recorded", "suppressed" or "threw", declined says that
\* the update function returned nothing, same that it returned the tree and
\* the selection it was given, notified that props.onChange was called, and
\* rendered with what.  streak counts the recorded tree-changing commits made
\* in a row; phase follows a recorded commit ("committed") through the undo
\* right after it ("undone") and the redo right after that ("redone"), pre
\* and post being the head before and after that commit, and dropped the
\* number of entries future held when that commit was made.
NoState == [ast |-> Undefined, selected |-> <<>>]

NoOp == [op |-> "init", name |-> "", param |-> "", outcome |-> "",
         declined |-> FALSE,
         same |-> FALSE, notified |-> FALSE, rendered |-> <<>>, streak |-> 0,
         phase |-> "idle", pre |-> NoState, post |-> NoState, dropped |-> 0]

Init ==
  /\ defaultValue \in DefaultValues
  /\ history = <<EditorState(parse(defaultValue), SELECTED_PREFIX)>>
  /\ future = <<>>
  /\ last = NoOp

\* ------------------------------------------------------------------------
\* addToHistory

\* The selection the update function is given: the empty path when the
\* head's selection no longer resolves and is not the "end" sentinel.
CommitSelected(head) ==
  IF Last(head.selected) # End /\ ~Truthy(GetIn(head.ast, head.selected))
    THEN <<>> ELSE head.selected

\* The tree the update function is given: a selected NumericLiteral has its
\* value rewritten as parseFloat(value).toString().
CommitAST(head) ==
  LET selected == CommitSelected(head)
      selectedNode == GetIn(head.ast, selected)
  IN IF Truthy(selectedNode) /\ HasToJS(selectedNode) /\ isNumericLiteral(selectedNode)
       THEN SetIn(head.ast, Append(selected, Key("value")),
                  ToString(parseFloat(Get(selectedNode, Key("value")))))
       ELSE head.ast

\* { ast, selected, ...updateFn(ast, selected) }
MergeState(ast, selected, r) ==
  EditorState(IF r.kind \in {"ast", "state"} THEN r.ast ELSE ast,
              IF r.kind = "state" THEN r.selected ELSE selected)

\* isASTPristine comparing with the tree as the head holds it, before the
\* numeric normalization.
isASTPristineOfHead(ast, newState) == Head(history).ast = newState.ast

isASTPristine(ast, newState) == ast = newState.ast

\* whether props.onChange is called
NotifiesChange(ast, newState) ==
  Truthy(newState.ast) /\ ~isASTPristine(ast, newState)

\* whether the updater returns undefined, so that nothing is recorded
IsSuppressed(ast, selected, newState) ==
  selected = newState.selected /\ isASTPristine(ast, newState)

\* PushHistory cutting one entry too late.
PushHistoryLoose(h, newState) == Take(<<newState>> \o h, MAX_HISTORY_LENGTH + 1)

\* history.unshift(newState).slice(0, MAX_HISTORY_LENGTH)
PushHistory(h, newState) == Take(<<newState>> \o h, MAX_HISTORY_LENGTH)

\* CommitFuture leaving future as it is.
CommitFutureKept(f) == f

\* future: List() of a recorded commit
CommitFuture(f) == <<>>


\* The selection and the tree addToHistory hands to the update function.
HeadSelected == CommitSelected(Head(history))
HeadAST == CommitAST(Head(history))

\* The step of addToHistory(updateFn), result being what the update function
\* returns of HeadAST and HeadSelected.  An exception inside the updater
\* leaves the state as it was.
AddToHistoryOf(name, param, result) ==
  \E selected \in {HeadSelected} :
  \E ast \in {HeadAST} :
  \E r \in {IF HasToJS(Head(history).ast) THEN result ELSE Throws} :
  \E newState \in {MergeState(ast, selected, r)} :
  \E notified \in {r.kind # "throws" /\ NotifiesChange(ast, newState)} :
  \E outcome \in {IF r.kind = "throws" THEN "threw"
                  ELSE IF IsSuppressed(ast, selected, newState) THEN "suppressed"
                  ELSE "recorded"} :
     /\ history' = IF outcome = "recorded" THEN PushHistory(history, newState)
                   ELSE history
     /\ future' = IF outcome = "recorded" THEN CommitFuture(future) ELSE future
     /\ last' = [op |-> "commit", name |-> name, param |-> param,
                 outcome |-> outcome,
                 declined |-> r.kind = "nothing",
                 same |-> r.kind \in {"ast", "state"}
                            /\ newState = EditorState(ast, selected),
                 notified |-> notified,
                 rendered |-> IF notified THEN Generate(newState.ast) ELSE <<>>,
                 streak |-> IF outcome # "recorded" THEN last.streak
                            ELSE IF newState.ast # ast THEN last.streak + 1
                            ELSE 0,
                 phase |-> IF outcome = "recorded" THEN "committed" ELSE last.phase,
                 pre |-> IF outcome = "recorded" THEN Head(history) ELSE last.pre,
                 post |-> IF outcome = "recorded" THEN newState ELSE last.post,
                 dropped |-> IF outcome = "recorded" THEN Len(future)
                             ELSE last.dropped]
     /\ UNCHANGED defaultValue

\* The step of addToHistory for the handlers that take no direction.
AddToHistory(name, result) == AddToHistoryOf(name, "", result)

\* ------------------------------------------------------------------------
\* undo and redo

\* UndoHistory dropping two entries where it can.
UndoHistoryTwice(h) == IF Len(h) > 2 THEN Tail(Tail(h)) ELSE h

UndoHistory(h) == IF Len(h) > 1 THEN Tail(h) ELSE h
UndoFuture(f, h) == <<Head(h)>> \o f
RedoHistory(f, h) == IF f = <<>> THEN h ELSE <<Head(f)>> \o h

\* RedoFuture leaving future as it is.
RedoFutureKept(f) == f

RedoFuture(f) == IF f = <<>> THEN f ELSE Tail(f)

\* Calling onChange when the exposed head holds another tree.
ExposedNotifiesOnChange(newHistory, h) == Head(newHistory).ast # Head(h).ast

\* whether undo and redo call props.onChange for the head they expose: they
\* hand it to updateEditorStateContext only
ExposedNotifies(newHistory, h) == FALSE

Undo ==
  /\ history' = UndoHistory(history)
  /\ future' = UndoFuture(future, history)
  /\ last' = IF last.phase = "committed"
               THEN [NoOp EXCEPT !.op = "undo", !.name = "UNDO", !.phase = "undone",
                                 !.pre = last.pre, !.post = last.post,
                                 !.notified = ExposedNotifies(UndoHistory(history), history)]
               ELSE [NoOp EXCEPT !.op = "undo", !.name = "UNDO",
                                 !.notified = ExposedNotifies(UndoHistory(history), history)]
  /\ UNCHANGED defaultValue

Redo ==
  /\ history' = RedoHistory(future, history)
  /\ future' = RedoFuture(future)
  /\ last' = IF last.phase = "undone"
               THEN [NoOp EXCEPT !.op = "redo", !.name = "REDO", !.phase = "redone",
                                 !.pre = last.pre, !.post = last.post,
                                 !.notified = ExposedNotifies(RedoHistory(future, history), history)]
               ELSE [NoOp EXCEPT !.op = "redo", !.name = "REDO",
                                 !.notified = ExposedNotifies(RedoHistory(future, history), history)]
  /\ UNCHANGED defaultValue

\* ------------------------------------------------------------------------
\* The handlers and the actions of the constructor's table

\* The paths of the AST nodes of a tree, which the node components hand to
\* onSelect.
RECURSIVE NodePaths(_, _)
NodePaths(v, prefix) ==
  IF IsMap(v)
    THEN {prefix} \cup
         UNION {NodePaths(v[k], Append(prefix, Key(k))) : k \in DOMAIN v \ {"type"}}
  ELSE IF IsList(v)
    THEN UNION {NodePaths(v.list[k], Append(prefix, Idx(k - 1))) : k \in 1..Len(v.list)}
  ELSE {}

\* The nodes the key map offers the value commands on.
IsValueNode(node) ==
  IsMap(node) /\ node.type \in {"NullLiteral", "BooleanLiteral", "NumericLiteral",
                                "StringLiteral", "ArrayExpression", "ObjectExpression"}

HandleSelect ==
  \E path \in NodePaths(CurrentEditorState.ast, <<>>) :
    /\ IsValueNode(GetIn(CurrentEditorState.ast, path))
         \/ isObjectProperty(GetIn(CurrentEditorState.ast, path))
    /\ AddToHistory("SELECT", ChangeSelected(path, HeadAST, HeadSelected))

HandleArrowKey ==
  \E direction \in Directions :
    AddToHistory(direction,
      ChangeSelected(navigate(direction, HeadAST, HeadSelected), HeadAST, HeadSelected))

INSERT == AddToHistory("INSERT", Insert(nullLiteral, HeadAST, HeadSelected))

MOVE ==
  \E direction \in {"UP", "DOWN"} :
    AddToHistoryOf("MOVE", direction, MoveSelected(direction, HeadAST, HeadSelected))

DELETE == AddToHistory("DELETE", DeleteSelected(HeadAST, HeadSelected))

SET_BOOLEAN ==
  \E value \in BOOLEAN :
    /\ IsValueNode(SelectedNode)
    /\ AddToHistory("SET_BOOLEAN", 
         Replace(booleanLiteral(value), <<>>, HeadAST, HeadSelected))

ADD_TO_NUMBER(increment) ==
  /\ isNumericLiteral(SelectedNode)
  /\ AddToHistory("ADD_TO_NUMBER", 
       AddToNumber(increment, HeadAST, HeadSelected))

\* (this.getSelectedNode().value || '').toString()
ToStringArgument(node) == ToString(OrElse(Get(node, Key("value")), Str(<<>>)))

\* Number(value) || parseFloat(value) || 0
ToNumberArgument(node) ==
  OrElse(OrElse(Number(Get(node, Key("value"))), parseFloat(Get(node, Key("value")))),
         Num(0))

TO_STRING ==
  /\ IsValueNode(SelectedNode)
  /\ AddToHistory("TO_STRING", 
       Replace([type |-> "StringLiteral", value |-> ToStringArgument(SelectedNode)],
               <<>>, HeadAST, HeadSelected))

TO_NUMBER ==
  /\ IsValueNode(SelectedNode)
  /\ AddToHistory("TO_NUMBER", 
       Replace(numericLiteral(ToNumberArgument(SelectedNode)), <<>>, HeadAST, HeadSelected))

TO_ARRAY ==
  /\ IsValueNode(SelectedNode)
  /\ AddToHistory("TO_ARRAY", 
       Replace(arrayExpression(<<SelectedNode>>), <<>>, HeadAST, HeadSelected))

TO_OBJECT ==
  /\ IsValueNode(SelectedNode)
  /\ AddToHistory("TO_OBJECT", 
       Replace(objectExpression(<<objectProperty(stringLiteral(<<>>), SelectedNode)>>),
               <<Key("properties"), Idx(0), Key("key")>>, HeadAST, HeadSelected))

TO_NULL ==
  /\ IsValueNode(SelectedNode)
  /\ AddToHistory("TO_NULL", 
       Replace(nullLiteral, <<>>, HeadAST, HeadSelected))

\* handleKeyDown: a digit typed on a NullLiteral
DigitKey ==
  \E enteredNumber \in {7} :
    /\ isNullLiteral(SelectedNode)
    /\ AddToHistory("DIGIT", 
         Replace(numericLiteral(Num(enteredNumber)), <<>>, HeadAST, HeadSelected))

\* The texts typed into the input of an editable literal.
ChangeTexts == { <<>>, <<"0", "1">>, <<"2", "x">> }

HandleChange ==
  \E text \in ChangeTexts :
    /\ isEditable(SelectedNode)
    /\ AddToHistory("CHANGE", 
         HandleChangeUpdate(text, HeadAST, HeadSelected))

\* handleCut: copy (which renders the selected node) and delete
HandleCut ==
  /\ ~isEditable(SelectedNode)
  /\ HasToJS(GetIn(CurrentEditorState.ast,
                   IF Last(CurrentEditorState.selected) = End
                     THEN DropLast(CurrentEditorState.selected, 2)
                     ELSE CurrentEditorState.selected))
  /\ AddToHistory("CUT", DeleteSelected(HeadAST, HeadSelected))

\* The nodes parseObject makes of the clipboard's JSON.
PasteNodes == { arrayExpression(<<>>), numericLiteral(Num(3)) }

HandlePaste ==
  \E node \in PasteNodes :
    /\ ~isEditable(SelectedNode)
    /\ AddToHistory("PASTE", Insert(node, HeadAST, HeadSelected))

Reset ==
  AddToHistory("RESET", NewState(parse(defaultValue), <<>>))

\* ------------------------------------------------------------------------
\* The specifications.  Each bounds the entries the step may leave in
\* history and future.

Within(maxHistory, maxFuture) ==
  /\ Len(history') <= maxHistory
  /\ Len(future') <= maxFuture

\* Spec: every handler, on every document.
Next ==
  \/ HandleSelect /\ Within(MaxEntries, MaxEntries)
  \/ HandleArrowKey /\ Within(MaxEntries, MaxEntries)
  \/ INSERT /\ Within(MaxEntries, MaxEntries)
  \/ MOVE /\ Within(MaxEntries, MaxEntries)
  \/ DELETE /\ Within(MaxEntries, MaxEntries)
  \/ SET_BOOLEAN /\ Within(MaxEntries, MaxEntries)
  \/ (\E increment \in {-1, 1} : ADD_TO_NUMBER(increment)) /\ Within(MaxEntries, MaxEntries)
  \/ TO_STRING /\ Within(MaxEntries, MaxEntries)
  \/ TO_NUMBER /\ Within(MaxEntries, MaxEntries)
  \/ TO_ARRAY /\ Within(MaxEntries, MaxEntries)
  \/ TO_OBJECT /\ Within(MaxEntries, MaxEntries)
  \/ TO_NULL /\ Within(MaxEntries, MaxEntries)
  \/ DigitKey /\ Within(MaxEntries, MaxEntries)
  \/ HandleChange /\ Within(MaxEntries, MaxEntries)
  \/ HandleCut /\ Within(MaxEntries, MaxEntries)
  \/ HandlePaste /\ Within(MaxEntries, MaxEntries)
  \/ Reset /\ Within(MaxEntries, MaxEntries)
  \/ Undo /\ Within(MaxEntries, MaxEntries)
  \/ Redo /\ Within(MaxEntries, MaxEntries)

Spec == Init /\ [][Next]_vars

\* SpecMove: selecting by click, inserting and moving.
NextMove ==
  \/ HandleSelect /\ Within(MaxMoveEntries, MaxMoveEntries)
  \/ INSERT /\ Within(MaxMoveEntries, MaxMoveEntries)
  \/ MOVE /\ Within(MaxMoveEntries, MaxMoveEntries)
  \/ Undo /\ Within(MaxMoveEntries, MaxMoveEntries)
  \/ Redo /\ Within(MaxMoveEntries, MaxMoveEntries)

SpecMove == Init /\ [][NextMove]_vars

\* SpecEdit: selecting, inserting and deleting, to a greater depth, on the
\* documents that hold no number.
InitEdit ==
  /\ defaultValue \in {d \in DefaultValues : Generate(d) \in {<<"{", "}">>, <<"[", "[", "]", ",", "null", "]">>}}
  /\ history = <<EditorState(parse(defaultValue), SELECTED_PREFIX)>>
  /\ future = <<>>
  /\ last = NoOp

NextEdit ==
  \/ HandleSelect /\ Within(MaxEditEntries, 0)
  \/ HandleArrowKey /\ Within(MaxEditEntries, 0)
  \/ INSERT /\ Within(MaxEditEntries, 0)
  \/ DELETE /\ Within(MaxEditEntries, 0)

SpecEdit == InitEdit /\ [][NextEdit]_vars

\* SpecCap: a numeric literal 0 that ADD_TO_NUMBER(1) counts up past the
\* cap of history.
InitCap ==
  /\ defaultValue = numericLiteral(Num(0))
  /\ history = <<EditorState(parse(defaultValue), SELECTED_PREFIX)>>
  /\ future = <<>>
  /\ last = NoOp

HeadNumber == parseFloat(GetIn(Head(history).ast, <<Key("program"), Key("body"), Idx(0), Key("value")>>))

NextCap ==
  \/ HandleSelect /\ Within(MAX_HISTORY_LENGTH + 1, MaxCapFuture)
  \/ /\ ADD_TO_NUMBER(1)
     /\ HeadNumber.num < MAX_HISTORY_LENGTH + MaxCapSlack
     /\ Within(MAX_HISTORY_LENGTH + 1, MaxCapFuture)
  \/ Undo /\ Within(MAX_HISTORY_LENGTH + 1, MaxCapFuture)
  \/ Redo /\ Within(MAX_HISTORY_LENGTH + 1, MaxCapFuture)

SpecCap == InitCap /\ [][NextCap]_vars

\* SpecUndoRedo: undo and redo alone, from the constructor's state.
NextUndoRedo ==
  \/ Undo /\ Within(MAX_HISTORY_LENGTH + MaxFutureSlack, MAX_HISTORY_LENGTH + MaxFutureSlack)
  \/ Redo /\ Within(MAX_HISTORY_LENGTH + MaxFutureSlack, MAX_HISTORY_LENGTH + MaxFutureSlack)

SpecUndoRedo == InitCap /\ [][NextUndoRedo]_vars

\* SpecNest: selecting by click and moving, on objects that hold an object.
NestedValues ==
  { objectExpression(<<objectProperty(stringLiteral(<<"a">>),
        objectExpression(<<objectProperty(stringLiteral(<<"b">>),
                                          numericLiteral(Num(1)))>>))>>),
    objectExpression(<<objectProperty(stringLiteral(<<"c">>), nullLiteral),
                       objectProperty(stringLiteral(<<"a">>),
        objectExpression(<<objectProperty(stringLiteral(<<"b">>),
                                          numericLiteral(Num(1)))>>))>>) }

InitNest ==
  /\ defaultValue \in NestedValues
  /\ history = <<EditorState(parse(defaultValue), SELECTED_PREFIX)>>
  /\ future = <<>>
  /\ last = NoOp

NextNest ==
  \/ HandleSelect /\ Within(MaxNestEntries, 0)
  \/ MOVE /\ Within(MaxNestEntries, 0)

SpecNest == InitNest /\ [][NextNest]_vars

\* SpecNum: selecting, typing into a literal and retyping it, on the
\* documents that hold numbers.
InitNum ==
  /\ defaultValue \in {numericLiteral(Num(0)),
                       arrayExpression(<<numericLiteral(Num(1)), numericLiteral(Num(2))>>)}
  /\ history = <<EditorState(parse(defaultValue), SELECTED_PREFIX)>>
  /\ future = <<>>
  /\ last = NoOp

NextNum ==
  \/ HandleSelect /\ Within(MaxNumEntries, 0)
  \/ HandleChange /\ Within(MaxNumEntries, 0)
  \/ (\E increment \in {-1, 1} : ADD_TO_NUMBER(increment)) /\ Within(MaxNumEntries, 0)
  \/ TO_ARRAY /\ Within(MaxNumEntries, 0)
  \/ TO_OBJECT /\ Within(MaxNumEntries, 0)
  \/ TO_STRING /\ Within(MaxNumEntries, 0)

SpecNum == InitNum /\ [][NextNum]_vars

\* ------------------------------------------------------------------------
\* Properties
\* ------------------------------------------------------------------------
IsCommit(l) == l.op = "commit"
IsRecorded(l) == l.op = "commit" /\ l.outcome = "recorded"

\* C1: undo() on a history of exactly one entry changes neither history nor
\* future.
C1_UndoAtSingleEntryIsNoOp ==
  [][(last'.op = "undo" /\ Len(history) = 1)
        => (history' = history /\ future' = future)]_vars

\* C2: history is never empty and never holds more than MAX_HISTORY_LENGTH
\* entries.
C2_HistoryNonEmptyAndBounded ==
  Len(history) >= 1 /\ Len(history) <= MAX_HISTORY_LENGTH

\* C3: undo() right after a recorded commit makes the head the state that was
\* the head before that commit, and redo() right after that undo makes the
\* head the state the commit recorded.
C3_UndoRedoInverse ==
  /\ last.phase = "undone" => Head(history) = last.pre
  /\ last.phase = "redone" => Head(history) = last.post

C3_Witness ==
  /\ last.phase = "redone"
  /\ last.pre.ast # last.post.ast
  /\ Head(history) = last.post

\* The state whose document is the number n, selected by a click.
CapState(n) ==
  EditorState(parse(numericLiteral(ToString(Num(n)))),
              SELECTED_PREFIX \o <<Idx(0)>>)

\* C4: after more than MAX_HISTORY_LENGTH recorded tree-changing commits in a
\* row, history holds exactly MAX_HISTORY_LENGTH entries, and they are the
\* states of the most recent MAX_HISTORY_LENGTH commits, newest first: after
\* 101 commits of ADD_TO_NUMBER(1) from 0 the oldest entry is the state of
\* the second commit.
C4_HistoryKeepsNewest ==
  last.streak > MAX_HISTORY_LENGTH =>
    /\ Len(history) = MAX_HISTORY_LENGTH
    /\ \A k \in 1..MAX_HISTORY_LENGTH :
          history[k] = CapState(HeadNumber.num - k + 1)
    /\ (last.streak = MAX_HISTORY_LENGTH + 1 /\ HeadNumber.num = MAX_HISTORY_LENGTH + 1)
          => history[MAX_HISTORY_LENGTH] = CapState(2)

C4_Witness ==
  /\ last.streak = MAX_HISTORY_LENGTH + 1
  /\ HeadNumber.num = MAX_HISTORY_LENGTH + 1
  /\ Len(history) = MAX_HISTORY_LENGTH

\* C5: a commit whose update function returns nothing, or returns the tree
\* and the selection it was given, changes neither history nor future and
\* does not call onChange.
C5_NoOpSuppressed ==
  [][(IsCommit(last') /\ (last'.declined \/ last'.same))
        => /\ history' = history
           /\ future' = future
           /\ ~last'.notified]_vars

C5_Witness ==
  /\ IsCommit(last)
  /\ last.name = "MOVE"
  /\ last.declined
  /\ last.outcome = "suppressed"
  /\ IsIdx(Last(Head(history).selected))

\* Whether the selection of a state resolves to something in its tree, or is
\* the end position of a collection of its tree.
SelectionValid(state) ==
  \/ ~IsUndefined(GetIn(state.ast, state.selected))
  \/ /\ state.selected # <<>>
     /\ Last(state.selected) = End
     /\ IsList(GetIn(state.ast, ButLast(state.selected)))

\* C6: in every head state the selection resolves to an existing node of the
\* tree or to the end position of an existing collection.
C6_SelectionValid == SelectionValid(Head(history))

\* C7: a commit that records a state leaves future empty, a commit that
\* records nothing leaves future as it was, future grows only by undo(),
\* which puts the head in front, and otherwise changes only by redo(), which
\* takes the front entry away.
C7_FutureDiscipline ==
  [][/\ IsRecorded(last') => future' = <<>>
     /\ (IsCommit(last') /\ ~IsRecorded(last')) => future' = future
     /\ Len(future') > Len(future)
          => (last'.op = "undo" /\ future' = <<Head(history)>> \o future)
     /\ (future' # future /\ Len(future') <= Len(future))
          => \/ IsRecorded(last') /\ future' = <<>>
             \/ last'.op = "redo" /\ future # <<>> /\ future' = Tail(future)]_vars

C7_Witness ==
  /\ IsRecorded(last)
  /\ last.dropped > 0
  /\ future = <<>>

\* C8: redo() with an empty future changes nothing; otherwise it puts the
\* front entry of future in front of history and takes it out of future,
\* and changes no other entry of either.
C8_RedoFrame ==
  [][last'.op = "redo" =>
       IF future = <<>>
         THEN history' = history /\ future' = future
         ELSE /\ Len(history') = Len(history) + 1
              /\ history'[1] = future[1]
              /\ \A k \in 1..Len(history) : history'[k + 1] = history[k]
              /\ Len(future') = Len(future) - 1
              /\ \A k \in 1..Len(future') : future'[k] = future[k + 1]]_vars

C8_Witness ==
  /\ last.op = "redo"
  /\ last.phase = "redone"
  /\ Len(history) >= 2
  /\ Head(history) = last.post

\* C9: a commit calls onChange exactly once, with the rendering of the new
\* head's tree, when it is recorded and the tree of the new head differs
\* from the tree of the previous head, and does not call it otherwise.
C9_ChangeNotification ==
  [][IsCommit(last') =>
       /\ last'.notified <=> (IsRecorded(last') /\ Head(history').ast # Head(history).ast)
       /\ last'.notified => last'.rendered = Generate(Head(history').ast)]_vars

\* C10: deleteSelected at the selection insert produced gives back the tree
\* insert was applied to.
C10_InsertDeleteInverse ==
  [][(IsRecorded(last) /\ last.name = "INSERT" /\ IsCommit(last') /\ last'.name = "DELETE")
        => Head(history').ast = last.pre.ast]_vars

\* The path of the collection a selection is in: the collection of the
\* selected node when that is an array or an object, otherwise the innermost
\* "elements" or "properties" step of the path; <<>> when there is none.
EnclosingCollection(ast, sel) ==
  LET node == GetIn(ast, sel)
      S == {k \in 1..Len(sel) : sel[k] \in {Key("elements"), Key("properties")}}
  IN IF isArrayExpression(node) THEN Append(sel, Key("elements"))
     ELSE IF isObjectExpression(node) THEN Append(sel, Key("properties"))
     ELSE IF S = {} THEN <<>>
     ELSE SubSeq(sel, 1, CHOOSE k \in S : \A j \in S : j <= k)

\* new is old with x put at position idx (counted from 0), the other
\* elements keeping their order.
InsertedAt(old, new, idx, x) ==
  /\ Len(new) = Len(old) + 1
  /\ idx >= 0 /\ idx <= Len(old)
  /\ new[idx + 1] = x
  /\ \A k \in 1..idx : new[k] = old[k]
  /\ \A k \in (idx + 1)..Len(old) : new[k + 1] = old[k]

\* The state recorded by an insert of node into the collection at path c of
\* ast, at position idx.
IsInsertion(ast, c, idx, node, new) ==
  LET owner == GetIn(ast, ButLast(c))
      item == IF isArrayExpression(owner) THEN node
              ELSE objectProperty(stringLiteral(<<>>), node)
  IN /\ IsList(GetIn(new.ast, c))
     /\ InsertedAt(GetIn(ast, c).list, GetIn(new.ast, c).list, idx, item)
     /\ new.ast = SetIn(ast, c, GetIn(new.ast, c))
     /\ new.selected = IF isArrayExpression(owner) THEN Append(c, Idx(idx))
                       ELSE c \o <<Idx(idx), Key("key")>>

\* C11: insert with a selection that is not the end position puts the node
\* right after the selected element of the enclosing collection (at 0 when
\* the collection node itself is selected), as it is in an array and as the
\* value of a property with the key '' in an object, keeps the other
\* elements in order, and selects the new element (the key of the new
\* property); without an enclosing collection nothing is recorded.
C11_InsertAfterSelected ==
  [][(IsCommit(last') /\ last'.name = "INSERT" /\ Last(HeadSelected) # End) =>
       LET c == EnclosingCollection(HeadAST, HeadSelected)
           at == PathGet(HeadSelected, Len(c))
       IN IF c = <<>>
            THEN history' = history
            ELSE /\ IsRecorded(last')
                 /\ IsInsertion(HeadAST, c, IF IsIdx(at) THEN at.i + 1 ELSE 0,
                                nullLiteral, Head(history'))]_vars

C11_Witness ==
  /\ IsRecorded(last)
  /\ last.name = "INSERT"
  /\ Head(history).selected = SELECTED_PREFIX \o <<Idx(0), Key("properties"), Idx(0), Key("key")>>
  /\ GetIn(Head(history).ast, SELECTED_PREFIX \o <<Idx(0)>>)
       = objectExpression(<<objectProperty(stringLiteral(<<>>), nullLiteral)>>)

\* C12: insert with the end position of a collection selected appends the
\* node to that collection and selects the new element (the key of the new
\* property).
C12_InsertAtEndAppends ==
  [][(IsCommit(last') /\ last'.name = "INSERT" /\ Last(HeadSelected) = End) =>
       LET c == ButLast(HeadSelected)
       IN /\ IsRecorded(last')
          /\ IsInsertion(HeadAST, c, Len(GetIn(HeadAST, c).list),
                         nullLiteral, Head(history'))]_vars

\* The position (counted from 1) of the deepest index step of a path, 0
\* when it has none.
DeepestIndexStep(sel) ==
  LET S == {k \in 1..Len(sel) : IsIdx(sel[k])}
  IN IF S = {} THEN 0 ELSE CHOOSE k \in S : \A j \in S : j <= k

\* new is old without its element at position idx (counted from 0).
RemovedAt(old, new, idx) ==
  /\ idx >= 0 /\ idx < Len(old)
  /\ Len(new) = Len(old) - 1
  /\ \A k \in 1..idx : new[k] = old[k]
  /\ \A k \in (idx + 1)..Len(new) : new[k] = old[k + 1]

\* C13: delete with a selection that has no index step (the whole document,
\* the initial root-body selection) or that is an end position records the
\* tree that is a single NullLiteral with the empty selection; otherwise it
\* removes exactly the element at the deepest index step of the selection
\* and changes nothing else in the tree.
C13_DeleteEffect ==
  [][(IsCommit(last') /\ last'.name = "DELETE") =>
       LET d == DeepestIndexStep(HeadSelected)
           c == SubSeq(HeadSelected, 1, d - 1)
           new == Head(history')
       IN /\ IsRecorded(last')
          /\ IF d = 0 \/ Last(HeadSelected) = End
               THEN new = EditorState(nullLiteral, <<>>)
               ELSE /\ IsList(GetIn(new.ast, c))
                    /\ RemovedAt(GetIn(HeadAST, c).list, GetIn(new.ast, c).list,
                                 HeadSelected[d].i)
                    /\ new.ast = SetIn(HeadAST, c, GetIn(new.ast, c))]_vars

\* The position (counted from 1) of the innermost "elements" or
\* "properties" step of a path, 0 when it has none.
InnermostCollectionStep(sel) ==
  LET S == {k \in 1..Len(sel) : sel[k] \in {Key("elements"), Key("properties")}}
  IN IF S = {} THEN 0 ELSE CHOOSE k \in S : \A j \in S : j <= k

\* Whether a selection is on or inside an element of a collection.
OnElement(sel) ==
  LET k == InnermostCollectionStep(sel)
  IN k > 0 /\ Len(sel) > k /\ IsIdx(sel[k + 1])

\* For a selection on an element: the path of its collection, its index,
\* the index of the sibling in a direction, and the list of the collection.
ElementCollection(sel) == SubSeq(sel, 1, InnermostCollectionStep(sel))
ElementIndex(sel) == sel[InnermostCollectionStep(sel) + 1].i
SiblingIndex(sel, direction) ==
  ElementIndex(sel) + (IF direction = "UP" THEN -1 ELSE 1)
ElementList(ast, sel) == GetIn(ast, ElementCollection(sel)).list

HasSibling(ast, sel, direction) ==
  /\ OnElement(sel)
  /\ IsList(GetIn(ast, ElementCollection(sel)))
  /\ SiblingIndex(sel, direction) >= 0
  /\ SiblingIndex(sel, direction) < Len(ElementList(ast, sel))

\* The property-into-nested-object case: the element and its sibling are
\* properties and the value of the sibling is an object.
IsNestedCase(ast, sel, direction) ==
  /\ HasSibling(ast, sel, direction)
  /\ isObjectProperty(ElementList(ast, sel)[ElementIndex(sel) + 1])
  /\ isObjectProperty(ElementList(ast, sel)[SiblingIndex(sel, direction) + 1])
  /\ isObjectExpression(ElementList(ast, sel)[SiblingIndex(sel, direction) + 1].value)

\* C14: a MOVE of a property whose sibling in the direction of the move is a
\* property with an object as value takes the property out of its
\* collection and puts it into the properties of that object, last when
\* moving DOWN and first when moving UP, and the new selection is the path
\* of the property in its new place followed by the rest of the old
\* selection.
C14_MoveIntoNestedObject ==
  [][(IsCommit(last') /\ last'.name = "MOVE"
        /\ IsNestedCase(HeadAST, HeadSelected, last'.param)) =>
       LET sel == HeadSelected
           c == ElementCollection(sel)
           i == ElementIndex(sel)
           j == SiblingIndex(sel, last'.param)
           item == ElementList(HeadAST, sel)[i + 1]
           nested == c \o <<Idx(j), Key("value"), Key("properties")>>
           pos == IF last'.param = "DOWN" THEN Len(GetIn(HeadAST, nested).list) ELSE 0
           put == SetIn(HeadAST, nested, ListInsert(GetIn(HeadAST, nested), pos, item))
           new == Head(history')
       IN /\ IsRecorded(last')
          /\ new.ast = SetIn(put, c, ListDelete(GetIn(put, c), i))
          /\ new.selected =
               c \o <<Idx(IF j > i THEN j - 1 ELSE j), Key("value"),
                      Key("properties"), Idx(pos)>>
                 \o SubSeq(sel, Len(c) + 2, Len(sel))
          /\ GetIn(new.ast, new.selected) = GetIn(HeadAST, sel)]_vars

\* A boundary situation: the selection is on an element that has no sibling
\* in the direction.
AtBoundary(ast, sel, direction) ==
  /\ OnElement(sel)
  /\ IsList(GetIn(ast, ElementCollection(sel)))
  /\ ElementIndex(sel) < Len(ElementList(ast, sel))
  /\ ~HasSibling(ast, sel, direction)

\* The boundary-crossing case: the element is a property, and its collection
\* is the value of a property of an outer object.
IsCrossingCase(ast, sel, direction) ==
  LET c == ElementCollection(sel)
  IN /\ AtBoundary(ast, sel, direction)
     /\ isObjectProperty(ElementList(ast, sel)[ElementIndex(sel) + 1])
     /\ Len(c) >= 4
     /\ c[Len(c) - 1] = Key("value")
     /\ IsIdx(c[Len(c) - 2])
     /\ c[Len(c) - 3] = Key("properties")
     /\ isObjectProperty(GetIn(ast, SubSeq(c, 1, Len(c) - 2)))
     /\ isObjectExpression(GetIn(ast, SubSeq(c, 1, Len(c) - 4)))

\* C15: a MOVE of a property that has no sibling in the direction of the
\* move, out of an object that is the value of a property of an outer
\* object, takes it out of the inner object and puts it into the outer
\* properties right before (UP) or right after (DOWN) that property, the
\* selection following it; in { a: { b: 1 } } MOVE UP on b gives the outer
\* properties b, a with the object of a empty.  In every other boundary
\* situation nothing is recorded.
C15_MoveAcrossBoundary ==
  [][(IsCommit(last') /\ last'.name = "MOVE"
        /\ AtBoundary(HeadAST, HeadSelected, last'.param)) =>
       IF IsCrossingCase(HeadAST, HeadSelected, last'.param)
         THEN LET sel == HeadSelected
                  c == ElementCollection(sel)
                  i == ElementIndex(sel)
                  item == ElementList(HeadAST, sel)[i + 1]
                  outer == SubSeq(c, 1, Len(c) - 3)
                  pos == c[Len(c) - 2].i + (IF last'.param = "UP" THEN 0 ELSE 1)
                  taken == SetIn(HeadAST, c, ListDelete(GetIn(HeadAST, c), i))
                  new == Head(history')
              IN /\ IsRecorded(last')
                 /\ new.ast = SetIn(taken, outer,
                                    ListInsert(GetIn(taken, outer), pos, item))
                 /\ new.selected = outer \o <<Idx(pos)>>
                                     \o SubSeq(sel, Len(c) + 2, Len(sel))
                 /\ GetIn(new.ast, new.selected) = GetIn(HeadAST, sel)
         ELSE history' = history]_vars

\* Whether a tree is defined and every member of the properties of an object
\* is a property and every member of the elements of an array is a node.
RECURSIVE WellFormed(_)
WellFormed(v) ==
  IF IsList(v) THEN \A k \in 1..Len(v.list) : IsMap(v.list[k]) /\ WellFormed(v.list[k])
  ELSE IF ~IsMap(v) THEN ~IsUndefined(v)
  ELSE /\ \A f \in DOMAIN v \ {"type"} : WellFormed(v[f])
       /\ isObjectExpression(v) =>
            /\ IsList(v.properties)
            /\ \A k \in 1..Len(v.properties.list) : isObjectProperty(v.properties.list[k])
       /\ isArrayExpression(v) => IsList(v.elements)
       /\ isObjectProperty(v) => IsMap(v.key) /\ IsMap(v.value)

IsCanonical(value) ==
  "str" \notin DOMAIN value \/ ToString(parseFloat(value)) = value

\* The paths of the numeric literals of a state, other than the selected
\* one, that hold a text that is not canonical.
StrayTexts(state) ==
  {p \in NodePaths(state.ast, <<>>) :
     /\ p # state.selected
     /\ isNumericLiteral(GetIn(state.ast, p))
     /\ ~IsCanonical(GetIn(state.ast, p).value)}

\* C17: a recorded commit that only moves the selection away from a numeric
\* literal leaves the canonical text parseFloat(value).toString() in it; no
\* recorded state holds a numeric literal with a text that is not canonical
\* outside its selection; and a selection that neither resolves nor ends in
\* "end" is replaced by the empty path before the update function is
\* applied.
C17_NumericNormalization ==
  [][IsCommit(last') =>
       /\ (IsRecorded(last') /\ last'.name \in {"SELECT"} \cup Directions
             /\ isNumericLiteral(SelectedNode))
            => Head(history').ast =
                 SetIn(Head(history).ast,
                       Append(Head(history).selected, Key("value")),
                       ToString(parseFloat(SelectedNode.value)))
       /\ \A k \in 1..Len(history') : StrayTexts(history'[k]) = {}
       /\ (Last(Head(history).selected) # End
             /\ ~Truthy(GetIn(Head(history).ast, Head(history).selected)))
            => HeadSelected = <<>>]_vars

\* A list with its elements at positions i and j (counted from 0) exchanged.
Exchanged(list, i, j) ==
  [k \in 1..Len(list) |->
     IF k = i + 1 THEN list[j + 1] ELSE IF k = j + 1 THEN list[i + 1] ELSE list[k]]

\* C18: a MOVE of an element that has a sibling in the direction of the
\* move, outside the property-into-nested-object case, is recorded; the
\* element and the sibling exchange positions, every other element of the
\* collection and the rest of the tree are unchanged, and the new selection
\* is the old one with only the index in the collection replaced.
C18_MoveSwapsSiblings ==
  [][(IsCommit(last') /\ last'.name = "MOVE"
        /\ HasSibling(HeadAST, HeadSelected, last'.param)
        /\ ~IsNestedCase(HeadAST, HeadSelected, last'.param)) =>
       LET sel == HeadSelected
           c == ElementCollection(sel)
           i == ElementIndex(sel)
           j == SiblingIndex(sel, last'.param)
           new == Head(history')
       IN /\ IsRecorded(last')
          /\ new.ast = SetIn(HeadAST, c, IList(Exchanged(ElementList(HeadAST, sel), i, j)))
          /\ new.selected = [sel EXCEPT ![Len(c) + 1] = Idx(j)]]_vars

\* C19: no two consecutive entries of history are equal in both tree and
\* selection: an undo that takes an entry off history exposes a state that
\* differs from the one it leaves.
C19_NoEqualNeighbours ==
  \A k \in 1..(Len(history) - 1) : history[k] # history[k + 1]

\* C20: undo and redo never call onChange, whatever tree they expose at the
\* head; onChange is called only by a commit.
C20_OnChangeOnlyFromCommit ==
  /\ last.op \in {"undo", "redo"} => ~last.notified
  /\ last.notified => IsCommit(last)

\* An undo has taken back a commit that had called onChange, and the head
\* now holds a tree other than the one rendered then.
C20_Witness ==
  /\ last.op = "undo"
  /\ last.phase = "undone"
  /\ Head(history) = last.pre
  /\ NotifiesChange(CommitAST(last.pre), last.post)
  /\ Head(history).ast # last.post.ast

====
